---- MODULE Spec2Model ----
(***************************************************************************)
(* A model of the BNI multi-chapter scraper (src/bni_multi_scrape.py):     *)
(* the field normalizer, the route handler, the resolution of the listing *)
(* page, the listing harvest with its de-duplication, the per-profile      *)
(* worker, the chapter worker and the orchestrator with their two          *)
(* semaphores.                                                             *)
(*                                                                         *)
(* Text is a sequence of one-character strings; Python's None is the       *)
(* value None below, which is no text the site can serve.                  *)
(***************************************************************************)
EXTENDS Integers, Sequences, FiniteSets, TLC

VARIABLES
    chapter_concurrency,  \* main: BNI_CHAPTER_CONCURRENCY
    profile_concurrency,  \* main: BNI_PROFILE_CONCURRENCY
    chapters,       \* main: the chapters run (after the name filter)
    sem,            \* main: the permits left of the chapter semaphore
    pc,             \* per chapter: where its run_one / scrape_chapter is
    exc,            \* per chapter: the exception raised out of scrape_chapter
    results,        \* harvest: the stubs appended so far
    nextCtl,        \* harvest: the "next" control of the page last read
    pagesRead,      \* harvest: the pages whose rows were read
    clicked,        \* harvest: the clicks on the "next" control
    outPath,        \* scrape_chapter: out_path
    bases,          \* scrape_chapter: the de-duplicated stubs
    psem,           \* scrape_chapter: the permits left of the profile semaphore
    wpc,            \* per stub: "waiting", "inside" (scrape_profile), "done"
    served,         \* per stub: what its profile page did
    loads,          \* per stub: the page.goto calls made for its profile
    members,        \* per stub: the record the worker returned
    files,          \* the output files, by path
    ret,            \* per chapter: what run_one returned
    mainPc,         \* main: "gather", "done"
    reported,       \* main: the count of the summary line
    phone_str,      \* normalize_phone: the argument of the first call
    local,          \* the local number phone_str was written from, or None
    once,           \* normalize_phone(phone_str)
    twice,          \* normalize_phone(once)
    phonePc,        \* "start", "once", "twice"
    name_str,       \* slugify: the argument of the first call
    slug,           \* slugify(name_str)
    slugAgain,      \* slugify(slug)
    slugPc,         \* "start", "once", "twice"
    listing_site,   \* _prepare_member_list_page: what the site does
    tried,          \* the resolution strategies it went through, in order
    resolution,     \* how it ended: "listing", "unreachable", "timeout"
    shown,          \* the listing table: its page number, rows, "next" control
    reads,          \* harvest: the pages whose rows it read, in order
    settled,        \* per click on "next": the table had changed after the wait
    harvest,        \* extract_profile_links_from_memberlist: results
    hpc,            \* where the harvest is: "read", "click", "done", "raised"
    request,        \* _block_heavy_resources: the request of the route
    issued,         \* the route calls made for it, in order
    fpc             \* "waiting", "handled", "raised" (out of the handler)

phoneVars == <<phone_str, local, once, twice, phonePc>>

slugVars == <<name_str, slug, slugAgain, slugPc>>

resolveVars == <<listing_site, tried, resolution>>

configVars == <<chapter_concurrency, profile_concurrency, chapters>>

localVars ==
    <<outPath, results, nextCtl, pagesRead, clicked, bases, psem, wpc, served,
      loads, members>>

runVars == <<sem, pc, exc, files, ret, mainPc, reported>>

\* what no step of a run changes
fixedVars ==
    <<configVars, phoneVars, slugVars, resolveVars, shown, reads, settled,
      harvest, hpc, request, issued, fpc>>

None == <<"None">>

Unset == <<"Unset">>

(***************************************************************************)
(* Bounds of the model.                                                    *)
(***************************************************************************)
\* the longest run of digits a plain input of normalize_phone holds
MaxBody == 12

\* the stubs one harvest appends at most
MaxStubs == 2

\* the pages and the clicks the two counters of the harvest tell apart (a
\* counter stays there on later pages)
MaxPages == 3

\* the largest concurrency limits the environment gives
MaxChapterLimit == 2

MaxProfileLimit == 2

\* the longest chapter name slugify is given (but for the scenario's)
MaxName == 5

(***************************************************************************)
(* normalize_phone                                                         *)
(***************************************************************************)
\* re.sub(r"[\s\+\-\(\)\.]", "", ...): the characters line 50 removes
Separators == {" ", "\t", "\n", "+", "-", "(", ")", "."}

LeadingDigits == {"6", "7", "8", "9"}

Digits == {"0", "1", "2", "3", "4", "5", "6", "7", "8", "9"}

IsSeparator(ch) == ch \in Separators

Cleaned(s) == SelectSeq(s, LAMBDA ch : ~IsSeparator(ch))

StartsWith(s, p) == Len(s) >= Len(p) /\ SubSeq(s, 1, Len(p)) = p

\* lines 52-55: the country code is cut only at the exact total length
StripCountryCode(cleaned) ==
    IF StartsWith(cleaned, <<"0", "0", "9", "1">>) /\ Len(cleaned) = 13
    THEN SubSeq(cleaned, 5, Len(cleaned))
    ELSE IF StartsWith(cleaned, <<"9", "1">>) /\ Len(cleaned) = 12
         THEN SubSeq(cleaned, 3, Len(cleaned))
         ELSE cleaned

LastTen(s) == SubSeq(s, Len(s) - 9, Len(s))

\* lines 57-59: the test reads cleaned[0], the value returned is cleaned[-10:]
AcceptCleaned(cleaned) ==
    IF Len(cleaned) >= 10 /\ cleaned[1] \in LeadingDigits
    THEN (IF Len(cleaned) > 10 THEN LastTen(cleaned) ELSE cleaned)
    ELSE None

normalize_phone(s) ==
    IF s = None \/ s = <<>>
    THEN None
    ELSE AcceptCleaned(StripCountryCode(Cleaned(s)))

(***************************************************************************)
(* Inputs of normalize_phone.                                              *)
(***************************************************************************)
SeqsUpTo(S, n) == UNION {[1..k -> S] : k \in 0..n}

\* digit runs, with a zero lead and a trailing non-digit
PlainInputs ==
    {lead \o body \o tail :
        lead \in {<<>>, <<"0">>, <<"0", "0">>},
        body \in SeqsUpTo({"1", "9"}, MaxBody),
        tail \in {<<>>, <<"x">>}}

ScenarioInputs == {None, <<"1", "2", "3", "4", "5">>}

LocalTails ==
    {<<"8", "7", "6", "5", "4", "3", "2", "1", "0">>,
     <<"1", "2", "3", "4", "5", "6", "7", "8", "9">>}

\* the valid local numbers: ten digits, the first of them 6-9
ValidLocal == {<<d>> \o t : d \in LeadingDigits, t \in LocalTails}

CountryCodes == {<<"9", "1">>, <<"0", "0", "9", "1">>}

SlotFill == {<<>>} \cup {<<ch>> : ch \in Separators}

\* a local number written with its country code, a separator (or none) in
\* front, after the country code, in the middle of the number and behind it
Written(n, cc, s0, s1, s2, s3) ==
    s0 \o cc \o s1 \o SubSeq(n, 1, 5) \o s2 \o SubSeq(n, 6, 10) \o s3

WrittenForms(n) ==
    {Written(n, cc, s0, s1, s2, s3) :
        cc \in CountryCodes, s0 \in SlotFill, s1 \in SlotFill,
        s2 \in SlotFill, s3 \in SlotFill}

NormalizeOnce ==
    /\ phonePc = "start"
    /\ once' = normalize_phone(phone_str)
    /\ phonePc' = "once"
    /\ UNCHANGED <<phone_str, local, twice>>

NormalizeTwice ==
    /\ phonePc = "once"
    /\ twice' = normalize_phone(once)
    /\ phonePc' = "twice"
    /\ UNCHANGED <<phone_str, local, once>>


(***************************************************************************)
(* Text helpers (str.strip, str.lower, the regular expressions).           *)
(***************************************************************************)
Whitespace == {" ", "\t", "\n"}

RECURSIVE LStrip(_)
LStrip(s) ==
    IF s # <<>> /\ Head(s) \in Whitespace THEN LStrip(Tail(s)) ELSE s

RECURSIVE RStrip(_)
RStrip(s) ==
    IF s # <<>> /\ s[Len(s)] \in Whitespace
    THEN RStrip(SubSeq(s, 1, Len(s) - 1))
    ELSE s

\* str.strip()
Strip(s) == RStrip(LStrip(s))

\* Python truthiness of an Optional[str]
Truthy(s) == s # None /\ s # <<>>

\* x or None
OrNone(s) == IF Truthy(s) THEN s ELSE None

Upper == <<"A", "B", "C", "D", "E", "F", "G", "H", "I", "J", "K", "L", "M",
           "N", "O", "P", "Q", "R", "S", "T", "U", "V", "W", "X", "Y", "Z">>

Lower == <<"a", "b", "c", "d", "e", "f", "g", "h", "i", "j", "k", "l", "m",
           "n", "o", "p", "q", "r", "s", "t", "u", "v", "w", "x", "y", "z">>

LowerChar(ch) ==
    IF \E k \in 1..26 : Upper[k] = ch
    THEN Lower[CHOOSE k \in 1..26 : Upper[k] = ch]
    ELSE ch

\* str.lower()
LowerText(s) == [k \in 1..Len(s) |-> LowerChar(s[k])]

SlugChars == {Lower[k] : k \in 1..26} \cup Digits

\* re.sub(r"[^a-z0-9]+", "_", s): every maximal run becomes one "_"
RECURSIVE CollapseRuns(_, _)
CollapseRuns(s, inRun) ==
    IF s = <<>> THEN <<>>
    ELSE IF Head(s) \in SlugChars
         THEN <<Head(s)>> \o CollapseRuns(Tail(s), FALSE)
         ELSE IF inRun THEN CollapseRuns(Tail(s), TRUE)
              ELSE <<"_">> \o CollapseRuns(Tail(s), TRUE)

RECURSIVE LStripUnderscore(_)
LStripUnderscore(s) ==
    IF s # <<>> /\ Head(s) = "_" THEN LStripUnderscore(Tail(s)) ELSE s

RECURSIVE RStripUnderscore(_)
RStripUnderscore(s) ==
    IF s # <<>> /\ s[Len(s)] = "_"
    THEN RStripUnderscore(SubSeq(s, 1, Len(s) - 1))
    ELSE s

\* slugify without the .strip("_") of line 33
slugify_untrimmed(s) ==
    LET t == CollapseRuns(LowerText(Strip(s)), FALSE)
    IN  IF t = <<>> THEN <<"c", "h", "a", "p", "t", "e", "r">> ELSE t

slugify(s) ==
    LET t == RStripUnderscore(LStripUnderscore(
                 CollapseRuns(LowerText(Strip(s)), FALSE)))
    IN  IF t = <<>> THEN <<"c", "h", "a", "p", "t", "e", "r">> ELSE t

SlugifyOnce ==
    /\ slugPc = "start"
    /\ slug' = slugify(name_str)
    /\ slugPc' = "once"
    /\ UNCHANGED <<name_str, slugAgain>>

SlugifyAgain ==
    /\ slugPc = "once"
    /\ slugAgain' = slugify(slug)
    /\ slugPc' = "twice"
    /\ UNCHANGED <<name_str, slug>>

\* [6-9]\d{9} at position j
TenAt(s, j) ==
    /\ j >= 1
    /\ j + 9 <= Len(s)
    /\ s[j] \in LeadingDigits
    /\ \A k \in 1..9 : s[j + k] \in Digits

At(s, j, ch) == j >= 1 /\ j <= Len(s) /\ s[j] = ch

\* (?:\+?91[-\s]?)? tried at position i: where group 1 may begin, in the
\* order the regular expression tries them (greedy, then backtracking)
GroupStarts(s, i) ==
    LET plus == At(s, i, "+")
        cc(j) == At(s, j, "9") /\ At(s, j + 1, "1")
        sep(j) == j <= Len(s) /\ j >= 1 /\ s[j] \in ({"-"} \cup Whitespace)
    IN  (IF plus /\ cc(i + 1) /\ sep(i + 3) THEN <<i + 4>> ELSE <<>>)
        \o (IF plus /\ cc(i + 1) THEN <<i + 3>> ELSE <<>>)
        \o (IF cc(i) /\ sep(i + 2) THEN <<i + 3>> ELSE <<>>)
        \o (IF cc(i) THEN <<i + 2>> ELSE <<>>)
        \o <<i>>

\* the first element of a sequence that is not None, None when all are
FirstHit(hits) ==
    LET at == {k \in 1..Len(hits) : hits[k] # None}
    IN  IF at = {} THEN None
        ELSE hits[CHOOSE k \in at : \A m \in at : k <= m]

\* the first element of a sequence that is truthy, None when none is
FirstTruthy(values) ==
    LET at == {k \in 1..Len(values) : Truthy(values[k])}
    IN  IF at = {} THEN None
        ELSE values[CHOOSE k \in at : \A m \in at : k <= m]

TenFrom(s, j) == IF TenAt(s, j) THEN SubSeq(s, j, j + 9) ELSE None

\* group 1 of the match that begins at position i, None when none does
MatchAt(s, i) ==
    LET starts == GroupStarts(s, i)
    IN  FirstHit([k \in 1..Len(starts) |-> TenFrom(s, starts[k])])

\* re.search(r"(?:\+?91[-\s]?)?([6-9]\d{9})", s).group(1), None without match
\* (a match holds ten characters, so it begins at Len(s) - 9 at the latest)
SearchPrefixed(s) ==
    IF Len(s) < 10 THEN None
    ELSE FirstHit([i \in 1..(Len(s) - 9) |-> MatchAt(s, i)])

\* re.search(r"([6-9]\d{9})", s).group(1), None without match
SearchTen(s) ==
    IF Len(s) < 10 THEN None
    ELSE FirstHit([j \in 1..(Len(s) - 9) |-> TenFrom(s, j)])

\* candidate = normalize_phone(m.group(1)) of a match m
Candidate(m) == IF m = None THEN None ELSE normalize_phone(m)

\* lines 137-147 and 155-165: the two patterns in turn, the first candidate
\* that normalizes
PatternPhone(s) ==
    FirstTruthy(<<Candidate(SearchPrefixed(s)), Candidate(SearchTen(s))>>)

(***************************************************************************)
(* URLs are sequences of tokens; Origin stands for "https://<host>".       *)
(***************************************************************************)
Origin == "https://host"

\* urljoin(page.url, href) for an absolute or a root-relative href
urljoin(href) == IF href # <<>> /\ Head(href) = Origin THEN href ELSE <<Origin>> \o href

RECURSIVE BeforeFragment(_)
BeforeFragment(u) ==
    IF u = <<>> \/ Head(u) = "#" THEN <<>>
    ELSE <<Head(u)>> \o BeforeFragment(Tail(u))

\* urldefrag(raw.strip())[0]
normalize_url(raw) == BeforeFragment(Strip(raw))

Contains(u, token) == \E k \in 1..Len(u) : u[k] = token

(***************************************************************************)
(* extract_profile_links_from_memberlist: one table row.                   *)
(* A cell is [text, link, bdi, bdiMarkup, html]: its inner_text, its first *)
(* <a> (text and href, or NoLink), the inner_text of its first <bdi>       *)
(* element                                                                 *)
(* (None without one), group 1 of the <bdi> pattern over its inner_html    *)
(* (None without a match) and the text of its inner_html the phone         *)
(* patterns run over.                                                      *)
(***************************************************************************)
\* lines 107-114
BdiTextPhone(cell) ==
    IF cell.bdi # None /\ Strip(cell.bdi) # <<>>
    THEN normalize_phone(Strip(cell.bdi))
    ELSE None

\* lines 118-127
BdiMarkupPhone(cell) ==
    IF cell.bdiMarkup # None /\ Strip(cell.bdiMarkup) # <<>>
    THEN normalize_phone(Strip(cell.bdiMarkup))
    ELSE None

\* lines 131-149
CellTextPhone(cell) ==
    IF Strip(cell.text) = <<>> THEN None ELSE PatternPhone(Strip(cell.text))

\* lines 153-167
CellMarkupPhone(cell) == PatternPhone(cell.html)

\* the four searches with the patterns over the cell texts in front
RowPhonePatternsFirst(row) ==
    IF row.phoneRaises THEN None
    ELSE FirstTruthy(
             [k \in 1..Len(row.cells) |-> CellTextPhone(row.cells[k])]
             \o [k \in 1..Len(row.cells) |-> BdiTextPhone(row.cells[k])]
             \o [k \in 1..Len(row.cells) |-> BdiMarkupPhone(row.cells[k])]
             \o [k \in 1..Len(row.cells) |-> CellMarkupPhone(row.cells[k])])

\* lines 103-169: the four searches in turn, each over the cells in order,
\* up to the first phone that normalizes; any exception leaves None
RowPhone(row) ==
    IF row.phoneRaises THEN None
    ELSE FirstTruthy(
             [k \in 1..Len(row.cells) |-> BdiTextPhone(row.cells[k])]
             \o [k \in 1..Len(row.cells) |-> BdiMarkupPhone(row.cells[k])]
             \o [k \in 1..Len(row.cells) |-> CellTextPhone(row.cells[k])]
             \o [k \in 1..Len(row.cells) |-> CellMarkupPhone(row.cells[k])])

\* lines 88-176: the stubs one row appends to results (none or one)
RowStubs(row) ==
    IF Len(row.cells) < 3 THEN <<>>
    ELSE IF ~row.cells[1].link.present THEN <<>>
    ELSE IF ~Truthy(row.cells[1].link.href) THEN <<>>
    ELSE <<[name |-> Strip(row.cells[1].link.text),
            business |-> Strip(row.cells[2].text),
            category |-> Strip(row.cells[3].text),
            phone |-> RowPhone(row),
            profile_url |-> urljoin(row.cells[1].link.href)]>>

\* the stubs of the rows of a page, those of the last row first
RECURSIVE PageStubsLastFirst(_)
PageStubsLastFirst(rows) ==
    IF rows = <<>> THEN <<>>
    ELSE PageStubsLastFirst(Tail(rows)) \o RowStubs(Head(rows))

\* lines 88-176: the stubs the rows of a page append, row by row
RECURSIVE PageStubs(_)
PageStubs(rows) ==
    IF rows = <<>> THEN <<>>
    ELSE RowStubs(Head(rows)) \o PageStubs(Tail(rows))

\* lines 84-183: what one turn of the harvest loop takes from a page: whether
\* its rows render and can be read, the stubs of its rows, its "next" control
Harvested(page) ==
    [renders |-> page.renders, stubs |-> PageStubs(page.rows),
     next |-> page.next]

(***************************************************************************)
(* lines 189-193: de-duplication through a dict keyed by profile_url.  A   *)
(* Python dict keeps the order in which its keys were first inserted.      *)
(***************************************************************************)
EmptyDict == [keys |-> <<>>, val |-> <<>>]

DictPutFirst(d, k, v) ==
    IF k \in DOMAIN d.val
    THEN d
    ELSE [keys |-> Append(d.keys, k), val |-> (k :> v) @@ d.val]

\* deduped[t[4]] = t
DictPut(d, k, v) ==
    IF k \in DOMAIN d.val
    THEN [d EXCEPT !.val[k] = v]
    ELSE [keys |-> Append(d.keys, k), val |-> (k :> v) @@ d.val]

RECURSIVE DedupFrom(_, _, _)
DedupFrom(rs, i, d) ==
    IF i > Len(rs) THEN d
    ELSE DedupFrom(rs, i + 1, DictPut(d, rs[i].profile_url, rs[i]))

\* list(deduped.values())
Dedup(rs) ==
    LET d == DedupFrom(rs, 1, EmptyDict)
    IN  [j \in 1..Len(d.keys) |-> d.val[d.keys[j]]]

(***************************************************************************)
(* scrape_profile.  What the profile page does is a record resp:           *)
(*   raises       "none", or where an exception no handler of the function *)
(*                catches is raised: "new_page" (lines 201-203),           *)
(*                "headings" (lines 296-304, not a timeout), "close" (325) *)
(*   goto         <<first, second>>: whether each page.goto succeeds       *)
(*   tel          the href of the first a[href^="tel:"], or None           *)
(*   contactLink  the text and href of .memberContactDetails               *)
(*                a[href^='tel:'], NoLink without one                      *)
(*   contactBlob  the inner_text of .memberContactDetails, or None         *)
(*   block        what the .widgetMemberTxtVideo script returns, None when *)
(*                the evaluation raises                                    *)
(*   headingsTimeout  the wait for the h3 headings times out               *)
(*   headings     the h3 headings as [title, value] records                *)
(***************************************************************************)
TARGET_SECTIONS ==
    {"My Business", "Top Product", "Ideal Referral", "Top Problem Solved",
     "My Favourite BNI Story"}

TelToken == "tel:"

\* href.replace("tel:", "").strip()
TelNumber(href) == Strip(SelectSeq(href, LAMBDA t : t # TelToken))

IsTelHref(href) == Truthy(href) /\ Head(href) = TelToken

\* the loop of lines 206-213 without the second attempt
GotoFailedAtOnce(resp) == ~resp.goto[1]

\* lines 206-213: last_err after the two attempts
GotoFailed(resp) == ~resp.goto[1] /\ ~resp.goto[2]

\* lines 201-213: the page.goto calls one scrape_profile makes
LoadAttempts(resp) ==
    IF resp.raises = "new_page" THEN 0
    ELSE IF resp.goto[1] THEN 1 ELSE 2

\* lines 235-243
PhoneFromTel(base, resp) ==
    LET seeded == normalize_phone(base.phone)
    IN  IF resp.tel # None /\ IsTelHref(resp.tel)
        THEN (IF Truthy(normalize_phone(TelNumber(resp.tel)))
              THEN normalize_phone(TelNumber(resp.tel))
              ELSE seeded)
        ELSE seeded

\* lines 246-258
PhoneFromContactLink(phone, resp) ==
    IF Truthy(phone) \/ ~resp.contactLink.present THEN phone
    ELSE LET txt == Strip(resp.contactLink.text)
             byText == IF txt # <<>> THEN normalize_phone(txt) ELSE phone
         IN  IF Truthy(byText) THEN byText
             ELSE IF resp.contactLink.href # None
                     /\ IsTelHref(resp.contactLink.href)
                  THEN normalize_phone(TelNumber(resp.contactLink.href))
                  ELSE byText

\* lines 261-271
PhoneFromContactBlob(phone, resp) ==
    IF Truthy(phone) \/ resp.contactBlob = None THEN phone
    ELSE LET m == SearchPrefixed(Strip(resp.contactBlob))
         IN  IF m # None THEN normalize_phone(m) ELSE phone

ProfilePhone(base, resp) ==
    PhoneFromContactBlob(
        PhoneFromContactLink(PhoneFromTel(base, resp), resp), resp)

\* lines 293-306: the value the last heading of that title leaves
SectionValue(resp, title) ==
    IF resp.headingsTimeout THEN None
    ELSE LET at == {k \in 1..Len(resp.headings) :
                        resp.headings[k].title = title}
         IN  IF at = {} THEN None
             ELSE OrNone(Strip(
                      resp.headings[CHOOSE k \in at : \A m \in at : m <= k].value))

\* lines 274-291 and 309-310
MyBusiness(resp) ==
    LET block == IF resp.block = None THEN None ELSE OrNone(Strip(resp.block))
    IN  IF Truthy(block) THEN block ELSE SectionValue(resp, "My Business")

StubFields(base) ==
    [name |-> base.name, business |-> base.business, category |-> base.category]

NullSections ==
    [top_product |-> None, ideal_referral |-> None,
     top_problem_solved |-> None, my_favourite_bni_story |-> None]

\* lines 215-225
GotoDegraded(base) ==
    StubFields(base) @@ [phone |-> OrNone(base.phone)] @@ NullSections
        @@ ("_error" :> "profile_goto_failed")

\* lines 312-322 with "my_business" included only when it has a value
ProfileDataSparse(base, resp) ==
    LET full ==
            StubFields(base)
                @@ [phone |-> ProfilePhone(base, resp),
                    my_business |-> MyBusiness(resp),
                    top_product |-> SectionValue(resp, "Top Product"),
                    ideal_referral |-> SectionValue(resp, "Ideal Referral"),
                    top_problem_solved |->
                        SectionValue(resp, "Top Problem Solved"),
                    my_favourite_bni_story |->
                        SectionValue(resp, "My Favourite BNI Story")]
    IN  IF MyBusiness(resp) = None
        THEN [key \in DOMAIN full \ {"my_business"} |-> full[key]]
        ELSE full

\* lines 312-322
ProfileData(base, resp) ==
    StubFields(base)
        @@ [phone |-> ProfilePhone(base, resp),
            my_business |-> MyBusiness(resp),
            top_product |-> SectionValue(resp, "Top Product"),
            ideal_referral |-> SectionValue(resp, "Ideal Referral"),
            top_problem_solved |-> SectionValue(resp, "Top Problem Solved"),
            my_favourite_bni_story |->
                SectionValue(resp, "My Favourite BNI Story")]

\* lines 317-321: the keys of the five free-text sections
SectionKeys ==
    {"my_business", "top_product", "ideal_referral", "top_problem_solved",
     "my_favourite_bni_story"}

Raises == [kind |-> "raise"]

Returns(data) == [kind |-> "return", data |-> data]

\* scrape_profile without the except of lines 305-306: the timeout of the
\* wait for the headings leaves the function
scrape_profile_timeout_raises(base, resp) ==
    IF resp.raises = "new_page" THEN Raises
    ELSE IF resp.raises = "close" THEN Raises
    ELSE IF GotoFailed(resp) THEN Returns(GotoDegraded(base))
    ELSE IF resp.raises = "headings" \/ resp.headingsTimeout THEN Raises
    ELSE Returns(ProfileData(base, resp))

scrape_profile(base, resp) ==
    IF resp.raises = "new_page" THEN Raises
    ELSE IF resp.raises = "close" THEN Raises
    ELSE IF GotoFailed(resp) THEN Returns(GotoDegraded(base))
    ELSE IF resp.raises = "headings" THEN Raises
    ELSE Returns(ProfileData(base, resp))

\* lines 488-500
WorkerDegraded(base) ==
    StubFields(base) @@ [phone |-> OrNone(base.phone)] @@ NullSections
        @@ ("_error" :> "profile_failed")
        @@ ("_profile_url" :> base.profile_url)

\* lines 483-502 without the try/except: the exception leaves the worker
worker_uncaught(chapterName, base, resp) ==
    LET r == scrape_profile(base, resp)
    IN  IF r.kind = "raise" THEN Raises
        ELSE Returns(("chapter" :> chapterName) @@ r.data)

\* lines 483-502: scrape_chapter.worker (data["chapter"] = chapter.name)
worker(chapterName, base, resp) ==
    LET r == scrape_profile(base, resp)
        data == IF r.kind = "raise" THEN WorkerDegraded(base) ELSE r.data
    IN  Returns(("chapter" :> chapterName) @@ data)

\* a record of a ChapterResult carries an error tag
HasError(data) == "_error" \in DOMAIN data

\* the fetch of a profile failed: both page loads, or an exception
FetchFailed(resp) == resp.raises # "none" \/ GotoFailed(resp)

(***************************************************************************)
(* The chapters (bni_chapters.CHAPTERS) and their output paths.            *)
(***************************************************************************)
\* bni_chapters.CHAPTERS as the model runs it: a listing URL, a detail URL,
\* and a third chapter whose name differs from the first in its case and
\* punctuation only
ChapterList ==
    <<[name |-> <<"B", "N", "I", " ", "A">>,
       url |-> <<Origin, "/", "a", "/", "memberlist">>],
      [name |-> <<"B", "N", "I", " ", "B">>,
       url |-> <<Origin, "/", "chapterdetail", "/", "b">>],
      [name |-> <<"b", "n", "i", "-", "a">>,
       url |-> <<Origin, "/", "a2", "/", "memberlist">>]>>

Chapters == DOMAIN ChapterList

\* Chapter(name=c["chapter"], url=c["url"])
CHAPTERS(c) == ChapterList[c]

\* lines 531-534
out_dir(ch) ==
    IF Contains(ch.url, "chapterdetail") \/ Contains(ch.url, "coregroupdetail")
    THEN "output_bni_chapterdetails"
    ELSE "output_bni"

\* line 465: os.path.join(out_dir, f"{slugify(chapter.name)}.json")
out_path(ch) == <<out_dir(ch), slugify(ch.name)>>

\* the out_path of each chapter of CHAPTERS
OutPath == [c \in Chapters |-> out_path(CHAPTERS(c))]

(***************************************************************************)
(* What the site serves.                                                   *)
(***************************************************************************)
Txt(ch) == <<ch>>

\* no <a> element (query_selector returns None)
NoLink == [present |-> FALSE, text |-> <<>>, href |-> None]

Link(text, href) == [present |-> TRUE, text |-> text, href |-> href]

PlainCell(text) ==
    [text |-> text, link |-> NoLink, bdi |-> None, bdiMarkup |-> None,
     html |-> text]

LinkCell(text, href) ==
    [text |-> text, link |-> Link(text, href), bdi |-> None,
     bdiMarkup |-> None, html |-> text]

\* a member row: the name link, the business, the category
MemberRow(name, business, href) ==
    [cells |-> <<LinkCell(name, href), PlainCell(business), PlainCell(Txt("c"))>>,
     phoneRaises |-> FALSE]

\* a row of fewer than 3 cells
ShortRow == [cells |-> <<PlainCell(Txt("-"))>>, phoneRaises |-> FALSE]

NextControls == {"absent", "disabled", "enabled"}

\* the j-th member of a directory: its own name and profile link
Member(j) == MemberRow(Txt(Lower[j]), Txt("b"), <<"/", "p", "/", Lower[j]>>)

\* the rows of a page that lists the k members after the first n
MembersFrom(n, k) == [j \in 1..k |-> Member(n + j)]

\* the pages of a directory whose members the listing shows once each, in
\* order, n of them read so far: the next k members, or no member row
MainPagesAfter ==
    [n \in 0..MaxStubs |->
        {Harvested([renders |-> r, rows |-> rs, next |-> nx]) :
            r \in BOOLEAN,
            rs \in {<<ShortRow>>}
                      \cup {MembersFrom(n, k) : k \in 1..(MaxStubs - n)},
            nx \in NextControls}]

MainPages(n) == MainPagesAfter[n]

NoPhoneOnPage ==
    [tel |-> None, contactLink |-> NoLink, contactBlob |-> None, block |-> None,
     headingsTimeout |-> TRUE, headings |-> <<>>]

Response(raises, goto) == [raises |-> raises, goto |-> goto] @@ NoPhoneOnPage

\* the page loads; both loads fail; the page loads and an exception follows
MainResponses ==
    {Response("none", <<TRUE, TRUE>>), Response("none", <<FALSE, FALSE>>),
     Response("headings", <<TRUE, TRUE>>)}

(***************************************************************************)
(* A listing and profile pages with contact data in their variant markup.  *)
(***************************************************************************)
ValidPhone == <<"9", "8", "7", "6", "5", "4", "3", "2", "1", "0">>

\* eleven characters, the first of them 9 and no country code of 12
ElevenDigits == <<"9", "1", "1", "1", "1", "1", "1", "1", "1", "1", "1">>

\* ten digits 6-9 first and a letter behind them
DigitsAndLetter == <<"9", "9", "9", "9", "9", "9", "9", "9", "9", "9", "x">>

\* "+91 9876543210"
PrefixedPhone == <<"+", "9", "1", " ">> \o ValidPhone

\* a cell whose number is in a <bdi> element
BdiCell(t) ==
    [text |-> t, link |-> NoLink, bdi |-> t, bdiMarkup |-> t,
     html |-> <<"<bdi>">> \o t \o <<"</bdi>">>]

\* member b with a fourth cell
ContactRow(cell, raises) ==
    [cells |-> Member(2).cells \o <<cell>>, phoneRaises |-> raises]

\* three cells, the first without a link
NoLinkRow ==
    [cells |-> <<PlainCell(Txt("a")), PlainCell(Txt("b")), PlainCell(Txt("c"))>>,
     phoneRaises |-> FALSE]

\* member a once more, with another business text
RepeatedRow == MemberRow(Txt("a"), Txt("d"), <<"/", "p", "/", "a">>)

RichRows ==
    {Member(1), RepeatedRow, ShortRow, NoLinkRow,
     ContactRow(BdiCell(ElevenDigits), FALSE),
     ContactRow(BdiCell(DigitsAndLetter), FALSE),
     ContactRow(PlainCell(PrefixedPhone), FALSE),
     ContactRow(BdiCell(ValidPhone), TRUE)}

\* the rows one page of the listing shows at most
MaxRows == 2

RichPages ==
    {Harvested([renders |-> r, rows |-> rs, next |-> nx]) :
        r \in BOOLEAN, rs \in (SeqsUpTo(RichRows, MaxRows) \ {<<>>}),
        nx \in NextControls}

Heading(title, value) == [title |-> title, value |-> value]

\* a profile page that loads at the second attempt and shows every field
FullProfile ==
    [raises |-> "none", goto |-> <<FALSE, TRUE>>,
     tel |-> <<TelToken>> \o PrefixedPhone,
     contactLink |-> Link(ValidPhone, <<TelToken>> \o ValidPhone),
     contactBlob |-> PrefixedPhone,
     block |-> <<" ", "w", " ">>,
     headingsTimeout |-> FALSE,
     headings |-> <<Heading("My Business", Txt("m")),
                    Heading("Top Product", Txt("t")),
                    Heading("Top Product", <<" ">>),
                    Heading("Other", Txt("o"))>>]

\* a profile page whose tel: link holds a letter
LetterTel ==
    [Response("none", <<TRUE, TRUE>>) EXCEPT
        !.tel = <<TelToken>> \o DigitsAndLetter]

\* a profile page with the number in the text of its contact block only
BlobOnly ==
    [Response("none", <<TRUE, TRUE>>) EXCEPT
        !.contactBlob = <<"p", "h", " ">> \o PrefixedPhone]

\* a profile page whose headings render, none of them a recognized title,
\* and whose content block has no "My Business" heading
OtherHeadings ==
    [Response("none", <<TRUE, TRUE>>) EXCEPT
        !.block = <<>>, !.headingsTimeout = FALSE,
        !.headings = <<Heading("Other", Txt("o")), Heading("my business", Txt("m"))>>]

\* a profile page without a dial link of its own, whose contact-details
\* link shows another number than the listing
ContactLinkOnly ==
    [Response("none", <<TRUE, TRUE>>) EXCEPT
        !.contactLink =
            Link(<<"9", "1", "2", "3", "4", "5", "6", "7", "8", "9">>,
                 <<TelToken, "9", "1", "2", "3", "4", "5", "6", "7", "8", "9">>)]

RichResponses ==
    MainResponses
        \cup {FullProfile, LetterTel, BlobOnly, OtherHeadings, ContactLinkOnly}

(***************************************************************************)
(* _prepare_member_list_page.  What the site does during the resolution is *)
(* a record site:                                                          *)
(*   start     the first page.goto(start_url) succeeds (line 336)          *)
(*   landed    the page.url it leaves: "memberlist" (holds "/memberlist"), *)
(*             "index" (ends with "/index") or "other"                     *)
(*   table     the rows of the table show within the wait of line 340      *)
(*   guess     the guessed sibling loads and shows the table (347-348)     *)
(*   back      the page.goto(start_url) of line 352 succeeds               *)
(*   tab       one of the selector candidates is found, clicked and shows  *)
(*             the table (lines 374-391; what fails there is caught)       *)
(*   exact     the exact-text scan shows the table (lines 395-414)         *)
(*   loose     the looser scan shows the table (lines 417-438)             *)
(*   markup    page.content() returns (line 441)                           *)
(*   link      the markup holds a listing link: "absolute" (line 443),     *)
(*             "href" (line 448) or "none"                                 *)
(*   linked    the linked page loads and shows the table (445-446,         *)
(*             450-451)                                                    *)
(***************************************************************************)
Sites ==
    [start : BOOLEAN, landed : {"memberlist", "index", "other"},
     table : BOOLEAN, guess : BOOLEAN, back : BOOLEAN, tab : BOOLEAN,
     exact : BOOLEAN, loose : BOOLEAN, markup : BOOLEAN,
     link : {"absolute", "href", "none"}, linked : BOOLEAN]

\* lines 358-454: from the candidates on
ClickThrough(site) ==
    IF site.tab \/ site.exact \/ site.loose THEN "listing"
    ELSE IF ~site.markup THEN "timeout"
    ELSE IF site.link # "none"
         THEN (IF site.linked THEN "listing" ELSE "timeout")
         ELSE "unreachable"

\* the function without the wait of line 340: a landing URL that holds
\* "/memberlist" is taken for the listing
prepare_unconfirmed(site) ==
    IF ~site.start THEN "timeout"
    ELSE IF site.landed = "memberlist" THEN "listing"
    ELSE IF site.landed = "index"
         THEN (IF site.guess THEN "listing"
               ELSE IF ~site.back THEN "timeout"
               ELSE ClickThrough(site))
    ELSE ClickThrough(site)

\* the function returns ("listing"), raises the ValueError of line 454
\* ("unreachable"), or an exception of a navigation or a wait that no handler
\* of the function catches leaves it ("timeout")
_prepare_member_list_page(site) ==
    IF ~site.start THEN "timeout"
    ELSE IF site.landed = "memberlist"
         THEN (IF site.table THEN "listing" ELSE "timeout")
    ELSE IF site.landed = "index"
         THEN (IF site.guess THEN "listing"
               ELSE IF ~site.back THEN "timeout"
               ELSE ClickThrough(site))
    ELSE ClickThrough(site)

\* how the resolution of a listing can end
Resolutions == {_prepare_member_list_page(site) : site \in Sites}

\* lines 358-452: the strategies gone through from the candidates on: the
\* candidates (3), the exact-text scan (4), the looser scan (5), the markup
\* search (6)
ClickAttempts(site) ==
    IF site.tab THEN <<3>>
    ELSE IF site.exact THEN <<3, 4>>
    ELSE IF site.loose THEN <<3, 4, 5>>
    ELSE <<3, 4, 5, 6>>

\* lines 336-452: the strategies the function goes through, in order: the
\* direct listing URL (1), the guessed sibling of an index URL (2), the
\* strategies of ClickAttempts
Attempts(site) ==
    IF ~site.start THEN <<>>
    ELSE IF site.landed = "memberlist" THEN <<1>>
    ELSE IF site.landed = "index"
         THEN (IF site.guess \/ ~site.back THEN <<2>>
               ELSE <<2>> \o ClickAttempts(site))
    ELSE ClickAttempts(site)

ResolveOnce ==
    /\ resolution = "start"
    /\ tried' = Attempts(listing_site)
    /\ resolution' = _prepare_member_list_page(listing_site)
    /\ UNCHANGED listing_site

(***************************************************************************)
(* extract_profile_links_from_memberlist on its own, over a listing whose  *)
(* table may or may not have changed when the wait after a click on "next" *)
(* is over (line 187 waits 400 ms and for nothing else; the de-duplication *)
(* of line 189 is there because "some pages can repeat").                  *)
(***************************************************************************)
\* the turns of the harvest loop that are followed
MaxReads == 2

\* the rows one page of the listing may show: up to three of member a,
\* member b, a row of one cell and a member whose <a> has no href; or one
\* row without a link; or one row of member b with contact cells: a number
\* in a <bdi>, a number in a hidden <bdi> (no visible text), a number in the
\* text of one cell and another in the <bdi> of the next, a <bdi> that holds
\* no phone before a cell with a number in its text, a number in an
\* attribute only, and a row whose search raises
ListingPages ==
    LET NoHrefRow == MemberRow(Txt("e"), Txt("b"), None)
        OtherPhone == <<"8", "7", "6", "5", "4", "3", "2", "1", "0", "9">>
        HiddenBdi ==
            [text |-> <<>>, link |-> NoLink, bdi |-> <<>>,
             bdiMarkup |-> OtherPhone,
             html |-> <<"<bdi hidden>">> \o OtherPhone \o <<"</bdi>">>]
        AttributeOnly ==
            [text |-> <<>>, link |-> NoLink, bdi |-> None, bdiMarkup |-> None,
             html |-> <<"<i title=">> \o ValidPhone \o <<">">>]
        Contacts(cells, raises) ==
            [cells |-> Member(2).cells \o cells, phoneRaises |-> raises]
    IN  (SeqsUpTo({Member(1), Member(2), ShortRow, NoHrefRow}, 3) \ {<<>>})
        \cup {<<NoLinkRow>>,
              <<Contacts(<<BdiCell(ValidPhone)>>, FALSE)>>,
              <<Contacts(<<HiddenBdi>>, FALSE)>>,
              <<Contacts(<<PlainCell(OtherPhone), BdiCell(ValidPhone)>>, FALSE)>>,
              <<Contacts(<<BdiCell(<<"1", "2", "3", "4", "5">>),
                           PlainCell(PrefixedPhone)>>, FALSE)>>,
              <<Contacts(<<AttributeOnly>>, FALSE)>>,
              <<Contacts(<<BdiCell(ElevenDigits)>>, FALSE)>>,
              <<Contacts(<<BdiCell(ValidPhone)>>, TRUE)>>}

\* lines 84-183: one turn of the harvest loop: the wait for the rows (which
\* may time out), the rows the table shows, the test of the "next" control
ReadRows ==
    /\ hpc = "read"
    /\ Len(reads) < MaxReads
    /\ \E renders \in BOOLEAN :
        IF renders
        THEN /\ harvest' = harvest \o PageStubs(shown.rows)
             /\ reads' = Append(reads, [no |-> shown.no, rows |-> shown.rows])
             /\ hpc' = IF shown.next = "enabled" THEN "click" ELSE "done"
             /\ UNCHANGED <<shown, settled>>
        ELSE /\ hpc' = "raised"
             /\ UNCHANGED <<shown, reads, settled, harvest>>

\* lines 186-187: click "next" and wait 400 ms; by then the table shows the
\* rows of the next page, or it still shows the rows it showed
ClickNextPage ==
    /\ hpc = "click"
    /\ Len(reads) < MaxReads
    /\ \E ok \in BOOLEAN :
        IF ok
        THEN /\ \E changed \in BOOLEAN :
                  /\ settled' = Append(settled, changed)
                  /\ IF changed
                     THEN \E rs \in ListingPages, nx \in NextControls :
                              shown' = [no |-> shown.no + 1, rows |-> rs,
                                        next |-> nx]
                     ELSE UNCHANGED shown
             /\ hpc' = "read"
             /\ UNCHANGED <<reads, harvest>>
        ELSE /\ hpc' = "raised"
             /\ UNCHANGED <<shown, reads, settled, harvest>>

(***************************************************************************)
(* The route handler of the browser context and of the profile pages.      *)
(***************************************************************************)
\* lines 62-70, for a request of some resource type that reaches the handler
\* (lines 203 and 472); reading its type, route.abort() and
\* route.continue_() may each raise. The calls made on the route, in order:
\* an exception of line 64 or of line 66 is passed over (lines 68-69) and
\* line 70 follows; an exception of line 70 leaves the handler
_block_heavy_resources ==
    \E route \in [rtype : {"document", "stylesheet", "image", "media", "font",
                           "script", "texttrack", "xhr", "fetch", "eventsource",
                           "websocket", "manifest", "other"},
                  typeRaises : BOOLEAN, abortRaises : BOOLEAN,
                  continueRaises : BOOLEAN] :
        LET heavy ==
                /\ ~route.typeRaises
                /\ route.rtype \in {"image", "media", "font"}
            calls ==
                IF ~heavy THEN <<"continue">>
                ELSE IF route.abortRaises THEN <<"abort", "continue">>
                ELSE <<"abort">>
        IN  /\ fpc # "idle"
            /\ request' = route
            /\ issued' = calls
            /\ fpc' = IF calls[Len(calls)] = "continue" /\ route.continueRaises
                      THEN "raised"
                      ELSE "handled"

(***************************************************************************)
(* main, run_one and scrape_chapter.                                       *)
(***************************************************************************)
NoFiles == <<>>

InitRun ==
    /\ sem = chapter_concurrency
    /\ pc = [c \in Chapters |-> IF c \in chapters THEN "queued" ELSE "filtered"]
    /\ exc = [c \in Chapters |-> "none"]
    /\ outPath = [c \in Chapters |-> None]
    /\ results = [c \in Chapters |-> <<>>]
    /\ nextCtl = [c \in Chapters |-> "none"]
    /\ pagesRead = [c \in Chapters |-> 0]
    /\ clicked = [c \in Chapters |-> 0]
    /\ bases = [c \in Chapters |-> <<>>]
    /\ psem = [c \in Chapters |-> 0]
    /\ wpc = [c \in Chapters |-> <<>>]
    /\ served = [c \in Chapters |-> <<>>]
    /\ loads = [c \in Chapters |-> <<>>]
    /\ members = [c \in Chapters |-> <<>>]
    /\ files = NoFiles
    /\ ret = [c \in Chapters |-> Unset]
    /\ mainPc = "gather"
    /\ reported = -1

\* the frame of scrape_chapter is gone: its locals with it
ClearLocals(c) ==
    /\ outPath' = [outPath EXCEPT ![c] = None]
    /\ results' = [results EXCEPT ![c] = <<>>]
    /\ nextCtl' = [nextCtl EXCEPT ![c] = "none"]
    /\ pagesRead' = [pagesRead EXCEPT ![c] = 0]
    /\ clicked' = [clicked EXCEPT ![c] = 0]
    /\ bases' = [bases EXCEPT ![c] = <<>>]
    /\ psem' = [psem EXCEPT ![c] = 0]
    /\ wpc' = [wpc EXCEPT ![c] = <<>>]
    /\ served' = [served EXCEPT ![c] = <<>>]
    /\ loads' = [loads EXCEPT ![c] = <<>>]
    /\ members' = [members EXCEPT ![c] = <<>>]

\* an exception leaves scrape_chapter (through its finally and async with)
Raised(c, kind) ==
    /\ pc' = [pc EXCEPT ![c] = "raising"]
    /\ exc' = [exc EXCEPT ![c] = kind]
    /\ ClearLocals(c)
    /\ UNCHANGED <<sem, files, ret, mainPc, reported, fixedVars>>

\* line 528: async with sem (acquire)
Acquire(c) ==
    /\ pc[c] = "queued"
    /\ sem > 0
    /\ sem' = sem - 1
    /\ pc' = [pc EXCEPT ![c] = "launch"]
    /\ UNCHANGED <<exc, files, ret, mainPc, reported, localVars, fixedVars>>

\* lines 462-474: the output directory, the browser, the context, the page
Launch(c) ==
    /\ pc[c] = "launch"
    /\ \E ok \in BOOLEAN :
        IF ok
        THEN /\ pc' = [pc EXCEPT ![c] = "resolve"]
             /\ outPath' = [outPath EXCEPT ![c] = out_path(CHAPTERS(c))]
             /\ UNCHANGED <<results, nextCtl, pagesRead, clicked, bases, psem, wpc,
                            served, loads, members>>
             /\ UNCHANGED <<sem, exc, files, ret, mainPc, reported, fixedVars>>
        ELSE Raised(c, "launch")

\* line 476: _prepare_member_list_page returns with the table confirmed, or
\* raises (the unreachable-listing error, or what a navigation or a wait
\* raised)
Resolve(c) ==
    /\ pc[c] = "resolve"
    /\ \E outcome \in Resolutions :
        IF outcome = "listing"
        THEN /\ pc' = [pc EXCEPT ![c] = "read"]
             /\ UNCHANGED <<sem, exc, files, ret, mainPc, reported, localVars, fixedVars>>
        ELSE Raised(c, outcome)

\* lines 481-505: the semaphore, one worker per stub
StartWorkers(c, stubs) ==
    /\ bases' = [bases EXCEPT ![c] = stubs]
    /\ psem' = [psem EXCEPT ![c] = profile_concurrency]
    /\ wpc' = [wpc EXCEPT ![c] = [i \in 1..Len(stubs) |-> "waiting"]]
    /\ served' = [served EXCEPT ![c] = [i \in 1..Len(stubs) |-> Unset]]
    /\ loads' = [loads EXCEPT ![c] = [i \in 1..Len(stubs) |-> 0]]
    /\ members' = [members EXCEPT ![c] = [i \in 1..Len(stubs) |-> Unset]]
    /\ pc' = [pc EXCEPT ![c] = "profiles"]

\* lines 476-477: what _prepare_member_list_page and
\* extract_profile_links_from_memberlist raise
ListingFailures == {"unreachable", "timeout", "harvest"}

\* a failed harvest that hands the stubs read so far to the workers
HarvestFailedKept(c) ==
    /\ StartWorkers(c, Dedup(results[c]))
    /\ exc' = [exc EXCEPT ![c] = "harvest"]
    /\ UNCHANGED <<outPath, results, nextCtl, pagesRead, clicked>>
    /\ UNCHANGED <<sem, files, ret, mainPc, reported, fixedVars>>

\* lines 82-86: the wait for the rows times out, or a row cannot be read
HarvestFailed(c) == Raised(c, "harvest")

\* one turn of the harvest loop without the test of lines 181-183: only a
\* "next" control that is absent ends the loop
ReadPageUntilAbsent(c, pages) ==
    /\ pc[c] = "read"
    /\ \E page \in pages :
        LET all == results[c] \o page.stubs
        IN  /\ Len(all) <= MaxStubs
            /\ IF ~page.renders
               THEN HarvestFailed(c)
               ELSE /\ results' = [results EXCEPT ![c] = all]
                    /\ nextCtl' = [nextCtl EXCEPT ![c] = page.next]
                    /\ pagesRead' = [pagesRead EXCEPT ![c] =
                           IF @ < MaxPages THEN @ + 1 ELSE @]
                    /\ pc' = [pc EXCEPT ![c] =
                           IF page.next # "absent" THEN "click" ELSE "harvested"]
                    /\ UNCHANGED <<outPath, clicked, bases, psem, wpc, served,
                                   loads, members>>
                    /\ UNCHANGED <<sem, exc, files, ret, mainPc, reported, fixedVars>>

\* lines 84-183: one turn of the harvest loop, up to the "next" control
ReadPage(c, pages) ==
    /\ pc[c] = "read"
    /\ \E page \in pages :
        LET all == results[c] \o page.stubs
        IN  /\ Len(all) <= MaxStubs
            /\ IF ~page.renders
               THEN HarvestFailed(c)
               ELSE /\ results' = [results EXCEPT ![c] = all]
                    /\ nextCtl' = [nextCtl EXCEPT ![c] = page.next]
                    /\ pagesRead' = [pagesRead EXCEPT ![c] =
                           IF @ < MaxPages THEN @ + 1 ELSE @]
                    /\ pc' = [pc EXCEPT ![c] =
                           IF page.next = "enabled" THEN "click" ELSE "harvested"]
                    /\ UNCHANGED <<outPath, clicked, bases, psem, wpc, served,
                                   loads, members>>
                    /\ UNCHANGED <<sem, exc, files, ret, mainPc, reported, fixedVars>>

\* lines 189-193 and 477-481: the loop has ended; the stubs are
\* de-duplicated and returned, the listing page is closed (its locals, but
\* for the stubs harvested, are gone) and the workers are started
HarvestReturn(c) ==
    /\ pc[c] = "harvested"
    /\ \E ok \in BOOLEAN :
        IF ok
        THEN /\ StartWorkers(c, Dedup(results[c]))
             /\ nextCtl' = [nextCtl EXCEPT ![c] = "none"]
             /\ pagesRead' = [pagesRead EXCEPT ![c] = 0]
             /\ clicked' = [clicked EXCEPT ![c] = 0]
             /\ UNCHANGED <<outPath, results, sem, exc, files, ret, mainPc, reported,
                            fixedVars>>
        ELSE Raised(c, "close")

\* lines 186-187: click "next", wait the settle interval
ClickNext(c) ==
    /\ pc[c] = "click"
    /\ \E ok \in BOOLEAN :
        IF ok
        THEN /\ pc' = [pc EXCEPT ![c] = "read"]
             /\ clicked' = [clicked EXCEPT ![c] =
                    IF @ < MaxPages THEN @ + 1 ELSE @]
             /\ UNCHANGED <<outPath, results, nextCtl, pagesRead, bases, psem, wpc,
                            served, loads, members>>
             /\ UNCHANGED <<sem, exc, files, ret, mainPc, reported, fixedVars>>
        ELSE Raised(c, "harvest")

\* line 484: async with sem (acquire) without the wait for a permit
WorkerAcquireUnguarded(c, i) ==
    /\ pc[c] = "profiles"
    /\ i \in DOMAIN wpc[c]
    /\ wpc[c][i] = "waiting"
    /\ psem' = [psem EXCEPT ![c] = @ - 1]
    /\ wpc' = [wpc EXCEPT ![c][i] = "inside"]
    /\ UNCHANGED <<outPath, results, nextCtl, pagesRead, clicked, bases, served,
                   loads, members,
                   runVars,
                   fixedVars>>

\* line 484: async with sem (acquire)
WorkerAcquire(c, i) ==
    /\ pc[c] = "profiles"
    /\ i \in DOMAIN wpc[c]
    /\ wpc[c][i] = "waiting"
    /\ psem[c] > 0
    /\ psem' = [psem EXCEPT ![c] = @ - 1]
    /\ wpc' = [wpc EXCEPT ![c][i] = "inside"]
    /\ UNCHANGED <<outPath, results, nextCtl, pagesRead, clicked, bases, served,
                   loads, members,
                   runVars,
                   fixedVars>>

\* lines 484-502 with the release after the return of the try block only:
\* a worker whose fetch failed keeps its permit
WorkerScrapeKeepsPermit(c, i, responses) ==
    /\ pc[c] = "profiles"
    /\ i \in DOMAIN wpc[c]
    /\ wpc[c][i] = "inside"
    /\ \E resp \in responses :
        LET r == worker(CHAPTERS(c).name, bases[c][i], resp)
        IN  /\ members' = [members EXCEPT ![c][i] = r.data]
            /\ served' = [served EXCEPT ![c][i] = resp]
            /\ loads' = [loads EXCEPT ![c][i] = @ + LoadAttempts(resp)]
            /\ wpc' = [wpc EXCEPT ![c][i] = "done"]
            /\ psem' = [psem EXCEPT ![c] = IF FetchFailed(resp) THEN @ ELSE @ + 1]
            /\ UNCHANGED <<outPath, results, nextCtl, pagesRead, clicked, bases,
                           runVars, fixedVars>>

\* lines 485-505 with the records collected as the workers return (a list
\* the workers append to) instead of gather's list
WorkerScrapeByCompletion(c, i, responses) ==
    /\ pc[c] = "profiles"
    /\ i \in DOMAIN wpc[c]
    /\ wpc[c][i] = "inside"
    /\ \E resp \in responses :
        LET r == worker(CHAPTERS(c).name, bases[c][i], resp)
            k == Cardinality({j \in DOMAIN wpc[c] : wpc[c][j] = "done"}) + 1
        IN  /\ members' = [members EXCEPT ![c][k] = r.data]
            /\ served' = [served EXCEPT ![c][i] = resp]
            /\ loads' = [loads EXCEPT ![c][i] = @ + LoadAttempts(resp)]
            /\ wpc' = [wpc EXCEPT ![c][i] = "done"]
            /\ psem' = [psem EXCEPT ![c] = @ + 1]
            /\ UNCHANGED <<outPath, results, nextCtl, pagesRead, clicked, bases,
                           runVars, fixedVars>>

\* lines 485-502: scrape_profile, the record, the release of the permit
WorkerScrape(c, i, responses) ==
    /\ pc[c] = "profiles"
    /\ i \in DOMAIN wpc[c]
    /\ wpc[c][i] = "inside"
    /\ \E resp \in responses :
        LET r == worker(CHAPTERS(c).name, bases[c][i], resp)
        IN  IF r.kind = "raise"
            THEN Raised(c, "profile")
            ELSE /\ members' = [members EXCEPT ![c][i] = r.data]
                 /\ served' = [served EXCEPT ![c][i] = resp]
                 /\ loads' = [loads EXCEPT ![c][i] = @ + LoadAttempts(resp)]
                 /\ wpc' = [wpc EXCEPT ![c][i] = "done"]
                 /\ psem' = [psem EXCEPT ![c] = @ + 1]
                 /\ UNCHANGED <<outPath, results, nextCtl, pagesRead, clicked, bases,
                              runVars,
                              fixedVars>>

\* lines 505-506: gather returns, browser.close()
CloseBrowser(c) ==
    /\ pc[c] = "profiles"
    /\ \A i \in DOMAIN wpc[c] : wpc[c][i] = "done"
    /\ \E ok \in BOOLEAN :
        IF ok
        THEN /\ pc' = [pc EXCEPT ![c] = "write"]
             /\ UNCHANGED <<sem, exc, files, ret, mainPc, reported, localVars, fixedVars>>
        ELSE Raised(c, "close")

FileOf(c, complete) ==
    [by |-> c, complete |-> complete,
     members |-> IF complete THEN members[c] ELSE <<>>]

\* lines 508-511 and 537-541: the file is written and run_one returns the
\* path; or open fails; or json.dump fails on the file it opened.  The
\* permit is released as run_one ends.
WriteResult(c) ==
    /\ pc[c] = "write"
    /\ \E outcome \in {"written", "open_fails", "dump_fails"} :
        /\ files' = IF outcome = "open_fails" THEN files
                    ELSE (outPath[c] :> FileOf(c, outcome = "written"))
                             @@ files
        /\ ret' = [ret EXCEPT ![c] =
                      IF outcome = "written" THEN outPath[c] ELSE None]
        /\ exc' = [exc EXCEPT ![c] = IF outcome = "written" THEN "none" ELSE "write"]
    /\ pc' = [pc EXCEPT ![c] = "done"]
    /\ sem' = sem + 1
    /\ ClearLocals(c)
    /\ UNCHANGED <<mainPc, reported, fixedVars>>

\* lines 527-541 without the try/except: the exception leaves run_one, then
\* gather, then main
Uncaught(c) ==
    /\ pc[c] = "raising"
    /\ pc' = [pc EXCEPT ![c] = "done"]
    /\ sem' = sem + 1
    /\ mainPc' = "aborted"
    /\ UNCHANGED <<exc, files, ret, reported, localVars, fixedVars>>

\* lines 527-541 with the except outside of the async with, the permit kept
CaughtHoldingPermit(c) ==
    /\ pc[c] = "raising"
    /\ ret' = [ret EXCEPT ![c] = None]
    /\ pc' = [pc EXCEPT ![c] = "done"]
    /\ UNCHANGED <<sem, exc, files, mainPc, reported, localVars, fixedVars>>

\* lines 539-541: run_one catches, logs, returns None; the permit is released
Catch(c) ==
    /\ pc[c] = "raising"
    /\ ret' = [ret EXCEPT ![c] = None]
    /\ pc' = [pc EXCEPT ![c] = "done"]
    /\ sem' = sem + 1
    /\ UNCHANGED <<exc, files, mainPc, reported, localVars, fixedVars>>

\* lines 543-545: gather returns, the summary line
Summary ==
    /\ mainPc = "gather"
    /\ \A c \in chapters : pc[c] = "done"
    /\ reported' = Cardinality({c \in chapters : ret[c] # None})
    /\ mainPc' = "done"
    /\ UNCHANGED <<sem, pc, exc, files, ret, localVars, fixedVars>>

vars ==
    <<configVars, runVars, localVars, phoneVars, slugVars, resolveVars, shown,
      reads, settled, harvest, hpc, request, issued, fpc>>

\* the normalizer is not running
PhoneIdle ==
    /\ phone_str = None
    /\ local = None
    /\ once = Unset
    /\ twice = Unset
    /\ phonePc = "idle"

\* slugify is not running
SlugIdle ==
    /\ name_str = <<>>
    /\ slug = Unset
    /\ slugAgain = Unset
    /\ slugPc = "idle"

\* no listing is being resolved on its own
ResolveIdle ==
    /\ listing_site = Unset
    /\ tried = <<>>
    /\ resolution = "idle"

\* no harvest and no route handler is running on its own
PageIdle ==
    /\ shown = Unset
    /\ reads = <<>>
    /\ settled = <<>>
    /\ harvest = <<>>
    /\ hpc = "idle"
    /\ request = Unset
    /\ issued = <<>>
    /\ fpc = "idle"

\* no run of main
RunIdle ==
    /\ chapter_concurrency = 0
    /\ profile_concurrency = 0
    /\ chapters = {}
    /\ InitRun

\* the first two chapters (BNI_ONLY_CHAPTER_REGEX selects them)
Init ==
    /\ chapter_concurrency \in 0..MaxChapterLimit
    /\ profile_concurrency \in 0..MaxProfileLimit
    /\ chapters = {1, 2}
    /\ InitRun
    /\ PhoneIdle
    /\ SlugIdle
    /\ ResolveIdle
    /\ PageIdle

Next ==
    \/ \E c \in Chapters : Acquire(c)
    \/ \E c \in Chapters : Launch(c)
    \/ \E c \in Chapters : Resolve(c)
    \/ \E c \in Chapters : ReadPage(c, MainPages(Len(results[c])))
    \/ \E c \in Chapters : ClickNext(c)
    \/ \E c \in Chapters : HarvestReturn(c)
    \/ \E c \in Chapters : \E i \in 1..MaxStubs : WorkerAcquire(c, i)
    \/ \E c \in Chapters : \E i \in 1..MaxStubs :
           WorkerScrape(c, i, MainResponses)
    \/ \E c \in Chapters : CloseBrowser(c)
    \/ \E c \in Chapters : WriteResult(c)
    \/ \E c \in Chapters : Catch(c)
    \/ Summary

Spec == Init /\ [][Next]_vars

\* the task of run_one(ch) and of the scrape_chapter it awaits
RunOneTask(c) ==
    \/ Acquire(c)
    \/ Launch(c)
    \/ Resolve(c)
    \/ ReadPage(c, MainPages(Len(results[c])))
    \/ ClickNext(c)
    \/ HarvestReturn(c)
    \/ CloseBrowser(c)
    \/ WriteResult(c)
    \/ Catch(c)

\* the task of worker(b)
WorkerTask(c, i) == WorkerAcquire(c, i) \/ WorkerScrape(c, i, MainResponses)

\* the event loop runs every task that is ready, and every awaited
\* navigation, wait and click ends (by its result or by its timeout)
Fairness ==
    /\ \A c \in Chapters : WF_vars(RunOneTask(c))
    /\ \A c \in Chapters : \A i \in 1..MaxStubs : WF_vars(WorkerTask(c, i))
    /\ WF_vars(Summary)

FairSpec == Init /\ [][Next]_vars /\ Fairness

\* one chapter (BNI_ONLY_CHAPTER_REGEX selects it) of a site with contact
\* data in its variant markup
InitChapter ==
    /\ chapter_concurrency = 1
    /\ profile_concurrency \in 1..MaxProfileLimit
    /\ chapters = {1}
    /\ InitRun
    /\ PhoneIdle
    /\ SlugIdle
    /\ ResolveIdle
    /\ PageIdle

NextChapter ==
    \/ \E c \in Chapters : Acquire(c)
    \/ \E c \in Chapters : Launch(c)
    \/ \E c \in Chapters : Resolve(c)
    \/ \E c \in Chapters : ReadPage(c, RichPages)
    \/ \E c \in Chapters : ClickNext(c)
    \/ \E c \in Chapters : HarvestReturn(c)
    \/ \E c \in Chapters : \E i \in 1..MaxStubs : WorkerAcquire(c, i)
    \/ \E c \in Chapters : \E i \in 1..MaxStubs :
           WorkerScrape(c, i, RichResponses)
    \/ \E c \in Chapters : CloseBrowser(c)
    \/ \E c \in Chapters : WriteResult(c)
    \/ \E c \in Chapters : Catch(c)
    \/ Summary

SpecChapter == InitChapter /\ [][NextChapter]_vars

\* the first and the third chapter: two chapters of one output directory
\* whose names give one slug
InitSameSlug ==
    /\ chapter_concurrency \in 1..MaxChapterLimit
    /\ profile_concurrency \in 1..MaxProfileLimit
    /\ chapters = {1, 3}
    /\ InitRun
    /\ PhoneIdle
    /\ SlugIdle
    /\ ResolveIdle
    /\ PageIdle

SpecSameSlug == InitSameSlug /\ [][Next]_vars

\* the strings normalize_phone is given: short strings, the scenarios of the
\* specification, and valid local numbers written with a country code
InitPhone ==
    /\ \/ /\ local = None
          /\ phone_str \in PlainInputs \cup ScenarioInputs
       \/ /\ local \in ValidLocal
          /\ phone_str \in WrittenForms(local)
    /\ once = Unset
    /\ twice = Unset
    /\ phonePc = "start"
    /\ RunIdle
    /\ SlugIdle
    /\ ResolveIdle
    /\ PageIdle

NextPhone ==
    \/ NormalizeOnce
           /\ UNCHANGED <<configVars, runVars, localVars, slugVars, resolveVars,
                        shown, reads, settled, harvest, hpc, request,
                        issued, fpc>>
    \/ NormalizeTwice
           /\ UNCHANGED <<configVars, runVars, localVars, slugVars, resolveVars,
                        shown, reads, settled, harvest, hpc, request,
                        issued, fpc>>

SpecPhone == InitPhone /\ [][NextPhone]_vars

\* the chapter names slugify is given: letters of both cases, a digit,
\* whitespace, the separator itself and punctuation; and "BNI Azpire!! "
InitSlug ==
    /\ name_str \in SeqsUpTo({"A", "b", "1", " ", "_", "!"}, MaxName)
           \cup {<<"B", "N", "I", " ", "A", "z", "p", "i", "r", "e", "!", "!",
                   " ">>}
    /\ slug = Unset
    /\ slugAgain = Unset
    /\ slugPc = "start"
    /\ RunIdle
    /\ PhoneIdle
    /\ ResolveIdle
    /\ PageIdle

NextSlug ==
    \/ SlugifyOnce
           /\ UNCHANGED <<configVars, runVars, localVars, phoneVars, resolveVars,
                        shown, reads, settled, harvest, hpc, request,
                        issued, fpc>>
    \/ SlugifyAgain
           /\ UNCHANGED <<configVars, runVars, localVars, phoneVars, resolveVars,
                        shown, reads, settled, harvest, hpc, request,
                        issued, fpc>>

SpecSlug == InitSlug /\ [][NextSlug]_vars

\* one call of _prepare_member_list_page, over every behaviour of the site
InitResolve ==
    /\ listing_site \in Sites
    /\ tried = <<>>
    /\ resolution = "start"
    /\ RunIdle
    /\ PhoneIdle
    /\ SlugIdle
    /\ PageIdle

SpecResolve ==
    InitResolve
        /\ [][ResolveOnce
                /\ UNCHANGED <<configVars, runVars, localVars, phoneVars,
                               slugVars, shown, reads, settled, harvest, hpc,
                               request, issued, fpc>>]_vars

\* one harvest of a listing whose first page is shown, over every listing
InitHarvest ==
    /\ shown \in [no : {1}, rows : ListingPages, next : NextControls]
    /\ reads = <<>>
    /\ settled = <<>>
    /\ harvest = <<>>
    /\ hpc = "read"
    /\ request = Unset
    /\ issued = <<>>
    /\ fpc = "idle"
    /\ RunIdle
    /\ PhoneIdle
    /\ SlugIdle
    /\ ResolveIdle

NextHarvest ==
    \/ ReadRows
           /\ UNCHANGED <<configVars, runVars, localVars, phoneVars, slugVars,
                          resolveVars, request, issued, fpc>>
    \/ ClickNextPage
           /\ UNCHANGED <<configVars, runVars, localVars, phoneVars, slugVars,
                          resolveVars, request, issued, fpc>>

SpecHarvest == InitHarvest /\ [][NextHarvest]_vars

\* the route handler, over the requests of a page one after the other
InitFilter ==
    /\ request = Unset
    /\ issued = <<>>
    /\ fpc = "waiting"
    /\ shown = Unset
    /\ reads = <<>>
    /\ settled = <<>>
    /\ harvest = <<>>
    /\ hpc = "idle"
    /\ RunIdle
    /\ PhoneIdle
    /\ SlugIdle
    /\ ResolveIdle

SpecFilter ==
    InitFilter
        /\ [][_block_heavy_resources
                /\ UNCHANGED <<configVars, runVars, localVars, phoneVars,
                               slugVars, resolveVars, shown, reads, settled,
                               harvest, hpc>>]_vars

(***************************************************************************)
(* The properties checked.                                                 *)
(***************************************************************************)
\* C1: no failure of a profile fetch leaves the chapter worker, and the
\* ChapterResult a chapter is about to write has one record per
\* de-duplicated stub, in the order of the stubs, each with the fields of
\* its stub; a record carries an error tag exactly when the fetch of
\* its profile failed (both page loads failed, or scrape_profile raised), so
\* of N records exactly k carry the tag when k fetches fail.
PartialFailureIsolation ==
    \A c \in Chapters :
        /\ exc[c] # "profile"
        /\ pc[c] = "write" =>
            /\ Len(members[c]) = Len(bases[c])
            /\ \A i \in DOMAIN bases[c] :
                /\ wpc[c][i] = "done"
                /\ HasError(members[c][i]) <=> FetchFailed(served[c][i])
                /\ HasError(members[c][i]) =>
                       members[c][i]["_error"]
                           \in {"profile_goto_failed", "profile_failed"}
                /\ StubFields(members[c][i]) = StubFields(bases[c][i])
                /\ members[c][i].chapter = CHAPTERS(c).name

\* a chapter of two profiles of which exactly one fetch failed is about to
\* write its two records, exactly one of them degraded
OneOfTwoDegraded ==
    \E c \in Chapters :
        /\ pc[c] = "write"
        /\ Len(bases[c]) = 2
        /\ FetchFailed(served[c][1]) /\ HasError(members[c][1])
        /\ ~FetchFailed(served[c][2]) /\ ~HasError(members[c][2])

\* C2: no exception leaves run_one (main is never aborted), and when main
\* reports, every chapter has ended, every permit is back, each chapter
\* that did not fail has returned the path of its file, which is written
\* whole, each chapter that failed has returned None, and the count
\* reported is the number of chapters that did not fail.
RunLevelIsolation ==
    /\ mainPc # "aborted"
    /\ \A c \in Chapters : pc[c] = "raising" => exc[c] # "none"
    /\ mainPc = "done" =>
        /\ sem = chapter_concurrency
        /\ \A c \in chapters :
            /\ pc[c] = "done"
            /\ exc[c] = "none" =>
                /\ ret[c] = OutPath[c]
                /\ ret[c] \in DOMAIN files
                /\ files[ret[c]].complete
            /\ exc[c] # "none" => ret[c] = None
        /\ reported = Cardinality({c \in chapters : exc[c] = "none"})
        /\ reported + Cardinality({c \in chapters : exc[c] # "none"})
               = Cardinality(chapters)

\* the listing of the first chapter could not be resolved, the second
\* chapter is written, and main reports one chapter
OneChapterSkipped ==
    /\ mainPc = "done"
    /\ exc[1] = "unreachable"
    /\ ret[1] = None
    /\ ret[2] = OutPath[2]
    /\ reported = 1

\* C3: at most chapter_concurrency chapters hold a permit of the chapter
\* semaphore (are inside run_one's async with, scrape_chapter included), for
\* each chapter at most profile_concurrency workers are inside
\* scrape_profile, and so at most chapter_concurrency * profile_concurrency
\* profile pages are open.
TwoLevelConcurrencyBound ==
    LET holding == {c \in Chapters : pc[c] \notin {"filtered", "queued", "done"}}
        inside(c) == {i \in DOMAIN wpc[c] : wpc[c][i] = "inside"}
        open == {<<c, i>> \in Chapters \X (1..MaxStubs) : i \in inside(c)}
    IN  /\ Cardinality(holding) <= chapter_concurrency
        /\ sem + Cardinality(holding) = chapter_concurrency
        /\ \A c \in Chapters : Cardinality(inside(c)) <= profile_concurrency
        /\ Cardinality(open) <= chapter_concurrency * profile_concurrency

\* both limits are 2 and both chapters have two profiles inside scrape_profile
BothGatesFull ==
    /\ chapter_concurrency = 2
    /\ profile_concurrency = 2
    /\ \A c \in chapters :
        /\ pc[c] = "profiles"
        /\ Len(wpc[c]) = 2
        /\ \A i \in DOMAIN wpc[c] : wpc[c][i] = "inside"

\* C4: a chapter whose listing resolution or listing harvest failed has left
\* scrape_chapter by that exception (it is with run_one, or ended with None),
\* has no worker and no stub, and no file, whole or partial, was written by
\* it; and the failure never comes once a worker exists.
ChapterFatalFailure ==
    /\ [](\A c \in Chapters : exc[c] \in ListingFailures =>
            /\ pc[c] \in {"raising", "done"}
            /\ pc[c] = "done" => ret[c] = None
            /\ ret[c] \in {Unset, None}
            /\ wpc[c] = <<>>
            /\ bases[c] = <<>>
            /\ \A path \in DOMAIN files : files[path].by # c)
    /\ [][\A c \in Chapters :
             (exc'[c] \in ListingFailures /\ exc[c] \notin ListingFailures)
                 => (wpc[c] = <<>> /\ pc[c] \in {"resolve", "read", "click"})]_vars

\* the harvest of the first chapter failed: the chapter ended with None and
\* only the second chapter wrote a file
HarvestFailureSkipsChapter ==
    /\ exc[1] = "harvest"
    /\ pc[1] = "done"
    /\ ret[1] = None
    /\ DOMAIN files = {OutPath[2]}

\* C5, as stated: every run of main reaches the summary (here even with
\* both limits positive).
RunTerminates ==
    (chapter_concurrency >= 1 /\ profile_concurrency >= 1)
        => <>(mainPc = "done")

\* C5: with both limits positive, a run in which every listing from some
\* page on shows no enabled "next" control reaches the summary.
RunTerminatesWhenPaginationEnds ==
    (/\ chapter_concurrency >= 1
     /\ profile_concurrency >= 1
     /\ \A c \in Chapters : <>[](nextCtl[c] # "enabled"))
        => <>(mainPc = "done")

\* main has reported with a limit of one chapter at a time, after one
\* chapter failed and the other was written
ReportedAfterFailure ==
    /\ mainPc = "done"
    /\ chapter_concurrency = 1
    /\ profile_concurrency >= 1
    /\ \E c \in Chapters : exc[c] # "none"
    /\ \E c \in Chapters : exc[c] = "none" /\ ret[c] # None

\* C6: a value normalize_phone returns is returned unchanged when it is
\* normalized again.
NormalizerIdempotent ==
    (phonePc = "twice" /\ once # None) => twice = once

\* C7: normalize_phone returns the last ten characters of the string left
\* after the separators and the country code are stripped when that string
\* has ten characters or more and the first of its last ten is 6-9, and
\* None for every other input.
AcceptanceRule ==
    LET left == StripCountryCode(Cleaned(phone_str))
        expected ==
            IF phone_str = None \/ phone_str = <<>> THEN None
            ELSE IF Len(left) >= 10 /\ left[Len(left) - 9] \in LeadingDigits
                 THEN LastTen(left)
                 ELSE None
    IN  phonePc # "start" => once = expected

\* C8: the phone of every harvested stub and of every record of a written
\* file is None or ten decimal digits of which the first is 6-9.
PhoneCanonical ==
    LET canonical(p) ==
            \/ p = None
            \/ /\ Len(p) = 10
               /\ p[1] \in LeadingDigits
               /\ \A k \in 1..10 : p[k] \in Digits
    IN  /\ \A c \in Chapters : \A i \in DOMAIN results[c] :
            canonical(results[c][i].phone)
        /\ \A path \in DOMAIN files : \A i \in DOMAIN files[path].members :
            canonical(files[path].members[i].phone)

\* C9: a valid local number written with the country code "91" or "0091"
\* and separators normalizes to the local number.
CountryCodeStripped ==
    (phonePc # "start" /\ local # None) => once = local

\* C10: the de-duplicated stubs hold each profile URL once, hold exactly
\* the URLs harvested, and the stub kept for a URL is, field by field, the
\* last stub harvested with that URL.
DedupLastWins ==
    \A c \in Chapters : pc[c] \in {"profiles", "write"} =>
        LET rs == results[c]
            bs == bases[c]
        IN  /\ \A i, j \in DOMAIN bs :
                bs[i].profile_url = bs[j].profile_url => i = j
            /\ {bs[i].profile_url : i \in DOMAIN bs}
                   = {rs[k].profile_url : k \in DOMAIN rs}
            /\ \A i \in DOMAIN bs : \E k \in DOMAIN rs :
                /\ rs[k] = bs[i]
                /\ \A m \in DOMAIN rs :
                    rs[m].profile_url = bs[i].profile_url => m <= k

\* two stubs harvested with one profile URL and different business texts:
\* one stub is kept, with the business text harvested last
RepeatedUrlKeepsLast ==
    \E c \in Chapters :
        /\ pc[c] = "profiles"
        /\ Len(results[c]) = 2
        /\ results[c][1].profile_url = results[c][2].profile_url
        /\ results[c][1].business # results[c][2].business
        /\ Len(bases[c]) = 1
        /\ bases[c][1].business = results[c][2].business

SectionNullDefault ==
    \A c \in Chapters : \A i \in DOMAIN wpc[c] :
        LET resp == served[c][i]
            noBlock == resp.block = None \/ Strip(resp.block) = <<>>
            noHeading ==
                \/ resp.headingsTimeout
                \/ \A k \in DOMAIN resp.headings :
                       resp.headings[k].title \notin TARGET_SECTIONS
        IN  (/\ wpc[c][i] = "done"
             /\ resp.raises = "none"
             /\ ~GotoFailed(resp)
             /\ noBlock
             /\ noHeading)
                => /\ SectionKeys \subseteq DOMAIN members[c][i]
                   /\ \A key \in SectionKeys : members[c][i][key] = None
                   /\ ~HasError(members[c][i])

\* a profile page loaded, its wait for the headings timed out, and the
\* record has a null "my_business" and no error tag
HeadingsTimedOut ==
    \E c \in Chapters : \E i \in DOMAIN wpc[c] :
        /\ wpc[c][i] = "done"
        /\ served[c][i].raises = "none"
        /\ ~GotoFailed(served[c][i])
        /\ served[c][i].headingsTimeout
        /\ members[c][i]["my_business"] = None
        /\ ~HasError(members[c][i])

\* C13: a listing resolution that fails raises the unreachable-listing
\* error: no chapter is left by an exception of a navigation or a wait of
\* _prepare_member_list_page.
UnreachableListingError ==
    \A c \in Chapters : exc[c] # "timeout"

\* C14: the profile page of a stub is loaded at most twice in the run, the
\* second time only when the first load failed; when one of the two loads
\* succeeds (and nothing is raised later) the record is the extracted one,
\* without an error tag; when both fail the record carries the name,
\* business, category and phone of the stub, no section value (the four
\* section keys it has are null) and the navigation-failure tag.
BoundedNavigationRetry ==
    \A c \in Chapters : \A i \in DOMAIN wpc[c] :
        LET resp == served[c][i]
            rec == members[c][i]
        IN  /\ loads[c][i] <= 2
            /\ wpc[c][i] # "done" => loads[c][i] = 0
            /\ (wpc[c][i] = "done" /\ resp.raises = "none") =>
                /\ loads[c][i] = (IF resp.goto[1] THEN 1 ELSE 2)
                /\ (resp.goto[1] \/ resp.goto[2]) =>
                    /\ ~HasError(rec)
                    /\ SectionKeys \subseteq DOMAIN rec
                /\ (~resp.goto[1] /\ ~resp.goto[2]) =>
                    /\ HasError(rec)
                    /\ rec["_error"] = "profile_goto_failed"
                    /\ StubFields(rec) = StubFields(bases[c][i])
                    /\ rec.phone = bases[c][i].phone
                    /\ \A key \in SectionKeys \cap DOMAIN rec : rec[key] = None
                    /\ DOMAIN NullSections \subseteq DOMAIN rec

\* a profile page loaded at the second attempt and its record has no error
\* tag; another failed to load twice and its record has the tag
SecondAttemptLoaded ==
    \E c \in Chapters : \E i, j \in DOMAIN wpc[c] :
        /\ wpc[c][i] = "done"
        /\ wpc[c][j] = "done"
        /\ served[c][i].raises = "none"
        /\ served[c][i].goto = <<FALSE, TRUE>>
        /\ loads[c][i] = 2
        /\ ~HasError(members[c][i])
        /\ GotoFailed(served[c][j])
        /\ loads[c][j] = 2
        /\ HasError(members[c][j])

\* C15: when main reports, every chapter that was written has its own file
\* (the file at the path it returned is the one it wrote, whole), and the
\* files written whole are as many as the chapters reported.
OneArtifactPerChapter ==
    mainPc = "done" =>
        /\ \A c \in chapters : ret[c] # None =>
            /\ ret[c] \in DOMAIN files
            /\ files[ret[c]].by = c
            /\ files[ret[c]].complete
        /\ \A c, d \in chapters :
               (c # d /\ ret[c] # None /\ ret[d] # None) => ret[c] # ret[d]
        /\ reported
               = Cardinality({path \in DOMAIN files : files[path].complete})

\* C16: slugify returns the words of the lowercased name (its maximal runs
\* of characters of [a-z0-9]) joined by single "_", or "chapter" when the
\* name has no such word; so the slug is never empty, holds only characters
\* of [a-z0-9_], neither begins nor ends with "_" nor holds two in a row,
\* and is returned unchanged by slugify; "BNI Azpire!! " gives "bni_azpire".
SlugifyResult ==
    LET t == LowerText(name_str)
        \* the positions of the characters of [a-z0-9], in order
        pos == SelectSeq([k \in 1..Len(t) |-> k], LAMBDA k : t[k] \in SlugChars)
        n == Len(pos)
        \* the word boundaries among the first j of them
        gaps(j) == Cardinality({m \in 2..j : pos[m] > pos[m - 1] + 1})
        joined ==
            [p \in 1..(n + gaps(n)) |->
                IF \E j \in 1..n : p = j + gaps(j)
                THEN t[pos[CHOOSE j \in 1..n : p = j + gaps(j)]]
                ELSE "_"]
        expected ==
            IF n = 0 THEN <<"c", "h", "a", "p", "t", "e", "r">> ELSE joined
    IN  /\ slugPc # "start" =>
            /\ slug = expected
            /\ slug # <<>>
            /\ \A k \in 1..Len(slug) : slug[k] \in SlugChars \cup {"_"}
            /\ slug[1] # "_"
            /\ slug[Len(slug)] # "_"
            /\ \A k \in 1..(Len(slug) - 1) : ~(slug[k] = "_" /\ slug[k + 1] = "_")
            /\ name_str = <<"B", "N", "I", " ", "A", "z", "p", "i", "r", "e", "!",
                            "!", " ">>
                   => slug = <<"b", "n", "i", "_", "a", "z", "p", "i", "r", "e">>
        /\ slugPc = "twice" => slugAgain = slug

\* a name that begins with punctuation and holds a run of separators
\* between two words has been slugified twice
PunctuatedNameSlugified ==
    /\ slugPc = "twice"
    /\ name_str = <<"!", "A", "_", " ", "b">>
    /\ slug = <<"a", "_", "b">>
    /\ slugAgain = slug

\* C17: the permits out of each gate are those of the units inside it: a
\* chapter that has ended, by its result or by its failure, holds no permit
\* of the chapter gate, a worker that has ended holds none of the profile
\* gate; when all workers of a chapter have returned its profile gate is
\* full, and when main reports the chapter gate is full.  With a positive
\* limit every queued chapter is admitted unless a chapter admitted before
\* it never ends, and every waiting worker is admitted (or its chapter ends).
PermitRelease ==
    /\ [](/\ sem + Cardinality({c \in Chapters :
                      pc[c] \notin {"filtered", "queued", "done"}})
               = chapter_concurrency
          /\ \A c \in Chapters :
              /\ pc[c] = "profiles" =>
                     psem[c] + Cardinality({i \in DOMAIN wpc[c] :
                                               wpc[c][i] = "inside"})
                         = profile_concurrency
              /\ pc[c] = "write" => psem[c] = profile_concurrency
          /\ mainPc = "done" => sem = chapter_concurrency)
    /\ (chapter_concurrency >= 1) =>
           \A c \in Chapters :
               \/ <>(pc[c] # "queued")
               \/ \E d \in Chapters :
                      <>[](pc[d] \notin {"filtered", "queued", "done"})
    /\ (profile_concurrency >= 1) =>
           \A c \in Chapters : \A i \in 1..MaxStubs :
               [](pc[c] = "profiles" =>
                      <>(\/ pc[c] # "profiles"
                         \/ i \notin DOMAIN wpc[c]
                         \/ wpc[c][i] # "waiting"))

\* with both limits 1: one chapter failed and gave its permit back, the
\* other was admitted after it; its first profile fetch failed, its second
\* worker was admitted after that, and its profile gate is full again
PermitsBackAfterFailures ==
    /\ chapter_concurrency = 1
    /\ profile_concurrency = 1
    /\ \E c, d \in chapters :
        /\ pc[d] = "done"
        /\ exc[d] # "none"
        /\ pc[c] = "write"
        /\ sem = 0
        /\ Len(members[c]) = 2
        /\ HasError(members[c][1])
        /\ psem[c] = 1

\* C18: a record a chapter is about to write carries an error tag exactly
\* when the fetch of its profile failed; and in every file written whole, a
\* record without an error tag has the five section keys, each holding null
\* or a text that is not empty.
RecordShape ==
    /\ \A c \in Chapters : pc[c] = "write" =>
           \A i \in DOMAIN members[c] :
               HasError(members[c][i]) <=> FetchFailed(served[c][i])
    /\ \A path \in DOMAIN files : \A i \in DOMAIN files[path].members :
           LET rec == files[path].members[i]
           IN  ~HasError(rec) =>
                   /\ SectionKeys \subseteq DOMAIN rec
                   /\ \A key \in SectionKeys :
                          rec[key] = None \/ Len(rec[key]) >= 1

\* a file of two records: the first degraded, the second without an error
\* tag, with a text for one section and null for another
MixedFileWritten ==
    \E path \in DOMAIN files :
        /\ files[path].complete
        /\ Len(files[path].members) = 2
        /\ HasError(files[path].members[1])
        /\ ~HasError(files[path].members[2])
        /\ files[path].members[2]["my_business"] = <<"w">>
        /\ files[path].members[2]["top_product"] = None

\* C19: the phone of a record extracted from a loaded profile page is the
\* first valid normalization among the dial link's target, the text of the
\* contact-details link, the target of that link and the pattern match in
\* the contact-details text; the phone of the stub only when none is valid
\* (for a stub whose phone is null or a number the normalizer accepts).
ProfilePhoneOrder ==
    \A c \in Chapters : \A i \in DOMAIN wpc[c] :
        LET resp == served[c][i]
            dial == IF resp.tel # None /\ IsTelHref(resp.tel)
                    THEN normalize_phone(TelNumber(resp.tel)) ELSE None
            linkText == IF resp.contactLink.present
                        THEN normalize_phone(Strip(resp.contactLink.text))
                        ELSE None
            linkTarget == IF resp.contactLink.present
                             /\ resp.contactLink.href # None
                             /\ IsTelHref(resp.contactLink.href)
                          THEN normalize_phone(TelNumber(resp.contactLink.href))
                          ELSE None
            inText == IF resp.contactBlob = None THEN None
                      ELSE Candidate(SearchPrefixed(Strip(resp.contactBlob)))
        IN  (/\ wpc[c][i] = "done"
             /\ resp.raises = "none"
             /\ ~GotoFailed(resp)
             /\ normalize_phone(bases[c][i].phone) = bases[c][i].phone)
                => members[c][i].phone
                       = FirstTruthy(<<dial, linkText, linkTarget, inText,
                                       bases[c][i].phone>>)

\* C20: whatever the order in which the workers of a chapter return, the
\* record of the i-th de-duplicated stub is the i-th record (it has the
\* name, business and category of that stub), and the file the chapter
\* writes holds the records in that order.
HarvestOrderKept ==
    /\ [](\A c \in Chapters : pc[c] = "write" =>
            /\ Len(members[c]) = Len(bases[c])
            /\ \A i \in DOMAIN bases[c] :
                   StubFields(members[c][i]) = StubFields(bases[c][i]))
    /\ [][\A c \in Chapters :
             (pc[c] = "write" /\ pc'[c] = "done" /\ ret'[c] # None) =>
                 /\ ret'[c] \in DOMAIN files'
                 /\ files'[ret'[c]].members = members[c]]_vars

\* the worker of the second stub has returned before the worker of the
\* first, and its record is the second
SecondWorkerReturnedFirst ==
    \E c \in Chapters :
        /\ pc[c] = "profiles"
        /\ Len(bases[c]) = 2
        /\ wpc[c][1] # "done"
        /\ wpc[c][2] = "done"
        /\ members[c][2].name = bases[c][2].name
        /\ bases[c][1].name # bases[c][2].name

\* C21: the strategies _prepare_member_list_page goes through are in the
\* order 1 to 6; the direct listing is the only one tried when the landing
\* URL is a listing URL, the guess is tried for an index URL only; every
\* strategy tried before the last one failed to confirm the table, and no
\* strategy from 3 on is skipped; the function returns exactly when the
\* last strategy it tried saw the rows of the table.
ResolutionOrder ==
    LET confirms(k) ==
            CASE k = 1 -> listing_site.table
              [] k = 2 -> listing_site.guess
              [] k = 3 -> listing_site.tab
              [] k = 4 -> listing_site.exact
              [] k = 5 -> listing_site.loose
              [] k = 6 -> /\ listing_site.markup
                          /\ listing_site.link # "none"
                          /\ listing_site.linked
        n == Len(tried)
    IN  resolution \notin {"idle", "start"} =>
            /\ \A k \in 1..n : tried[k] \in 1..6
            /\ \A k \in 1..(n - 1) : tried[k] < tried[k + 1]
            /\ \A k \in 1..(n - 1) : ~confirms(tried[k])
            /\ \A k \in 1..(n - 1) : tried[k] >= 3 => tried[k + 1] = tried[k] + 1
            /\ \A k \in 1..(n - 1) : tried[k] = 2 => tried[k + 1] = 3
            /\ (\E k \in 1..n : tried[k] = 1)
                   <=> (listing_site.start /\ listing_site.landed = "memberlist")
            /\ (\E k \in 1..n : tried[k] = 1) => n = 1
            /\ (\E k \in 1..n : tried[k] = 2)
                   <=> (listing_site.start /\ listing_site.landed = "index")
            /\ resolution = "listing" <=> (n >= 1 /\ confirms(tried[n]))

\* an index URL whose guessed sibling failed, whose candidates and exact
\* scan failed, and whose looser scan showed the table
ResolvedByLooseScan ==
    /\ resolution = "listing"
    /\ tried = <<2, 3, 4, 5>>
    /\ ~listing_site.guess
    /\ listing_site.loose

\* C22 (as amended): before the de-duplication the harvest holds one stub
\* for each row read that has three cells or more and, in its first cell, a
\* link with an href; the stubs stand in the order in which the rows were
\* read, page by page and row by row, each with the name, business,
\* category and resolved link of its row, and rows of fewer than three
\* cells, without a link or without an href give no stub. The read number
\* k + 1 follows k clicks on "next", each with its settle wait; the first
\* read is of page 1, and a later read is of the page after the one read
\* before when the table had changed by the end of the wait, and of the
\* same page once more when it had not.
HarvestRowRule ==
    LET RowsRead[k \in 0..Len(reads)] ==
            IF k = 0 THEN <<>> ELSE RowsRead[k - 1] \o reads[k].rows
        WithLink(row) ==
            /\ Len(row.cells) >= 3
            /\ row.cells[1].link.present
            /\ row.cells[1].link.href \notin {None, <<>>}
        rows == SelectSeq(RowsRead[Len(reads)], WithLink)
    IN  /\ Len(harvest) = Len(rows)
        /\ \A i \in 1..Len(rows) :
            i \in DOMAIN harvest =>
                /\ harvest[i].name = Strip(rows[i].cells[1].link.text)
                /\ harvest[i].business = Strip(rows[i].cells[2].text)
                /\ harvest[i].category = Strip(rows[i].cells[3].text)
                /\ harvest[i].profile_url = urljoin(rows[i].cells[1].link.href)
        /\ hpc \in {"click", "done"} => Len(reads) = Len(settled) + 1
        /\ hpc = "read" => Len(reads) = Len(settled)
        /\ Len(reads) \in {Len(settled), Len(settled) + 1}
        /\ reads # <<>> => reads[1].no = 1
        /\ \A k \in 1..(Len(reads) - 1) :
            /\ k \in DOMAIN settled
            /\ reads[k + 1].no = reads[k].no + (IF settled[k] THEN 1 ELSE 0)

\* C22 (as stated): one stub for each row read that has three cells or more
\* and a member link (an <a> with an href) in its first cell, in the order
\* read, and every page of the listing read exactly once: the k-th read is
\* of page k.
EachPageReadOnce ==
    LET RowsRead[k \in 0..Len(reads)] ==
            IF k = 0 THEN <<>> ELSE RowsRead[k - 1] \o reads[k].rows
        WithLink(row) ==
            /\ Len(row.cells) >= 3
            /\ row.cells[1].link.present
            /\ row.cells[1].link.href \notin {None, <<>>}
        rows == SelectSeq(RowsRead[Len(reads)], WithLink)
    IN  /\ Len(harvest) = Len(rows)
        /\ \A i \in 1..Len(rows) :
            i \in DOMAIN harvest =>
                harvest[i].name = Strip(rows[i].cells[1].link.text)
        /\ hpc \in {"click", "done"} => Len(reads) = Len(settled) + 1
        /\ \A k \in 1..Len(reads) : reads[k].no = k

\* a listing of two pages, of 3 and of 1 member rows, harvested to its end:
\* 4 stubs
TwoPagesFourStubs ==
    /\ hpc = "done"
    /\ Len(reads) = 2
    /\ reads[1].no = 1
    /\ reads[2].no = 2
    /\ Len(reads[1].rows) = 3
    /\ Len(reads[2].rows) = 1
    /\ shown.next = "disabled"
    /\ Len(harvest) = 4

OneDecisionPerRequest ==
    fpc \in {"handled", "raised"} =>
        issued = IF /\ ~request.typeRaises
                    /\ request.rtype \in {"image", "media", "font"}
                 THEN <<"abort">>
                 ELSE <<"continue">>

====
